---------------------------- MODULE Spec2Model ----------------------------
(* A model of the portfolio site's scripts: the UI controller              *)
(* (src/ui-controller.js), the cabin scene (src/unnamed/part_002), the     *)
(* mobile handler (src/unnamed/part_004) and the ASCII overlay's wipe      *)
(* transition (src/ascii-renderer.js).                                     *)
(*                                                                         *)
(* Real numbers are kept in fixed point: a progress or keyframe time t is  *)
(* the integer 100 * t (Scale), a length in scene units is 100 * length.   *)
(* Each group of handlers has its own specification over the same          *)
(* variables; a specification leaves the other groups' variables alone.    *)
EXTENDS Integers, Sequences, FiniteSets, TLC

VARIABLES
    ui,          \* the UI object's fields (src/ui-controller.js:49)
    scene,       \* the CabinScene fields the handlers touch
    body,        \* document.body.classList
    timers,      \* pending setTimeout callbacks of the typing effect
    now,         \* Date.now(), in ms
    last,        \* the scroll throttle's closure variable
    scrollY,     \* window.scrollY
    docHeight,   \* scrollHeight - innerHeight
    delivered,   \* number of scroll events dispatched so far
    cam,         \* the camera state written by _updateCamera
    perf,        \* two devices, their MobileHandler tier caches and renderers
    mh,          \* the MobileHandler's fields
    wipes,       \* the wipe transitions created so far
    twin,        \* a second run of the page fed the same events
    loading,     \* the loading screen of startLoadingAnimation
    listeners,   \* event listeners and loops a MobileHandler has registered
    idle,        \* the idle detection of the UI
    stars,       \* the shooting stars of the CabinScene
    keyed        \* what the keydown events so far spelled, and whether the last one fired

uiVars     == <<ui, scene, body, timers>>
scrollVars == <<now, last, scrollY, docHeight, delivered>>
lateVars   == <<loading, listeners, idle, stars, keyed>>
vars == <<ui, scene, body, timers, now, last, scrollY, docHeight, delivered,
          cam, perf, mh, wipes, twin, loading, listeners, idle, stars, keyed>>

-----------------------------------------------------------------------------
(* Bounds of the model                                                     *)

Scale == 100
MaxScrollStep == 12
MaxTime == 48
MaxDelivered == 6

ScrollTops == {-10} \cup {10 * k : k \in 0..MaxScrollStep}
DocHeights == {0, 50, 100}
TickSteps == {8, 16}

-----------------------------------------------------------------------------
(* Utilities                                                               *)

Min(a, b) == IF a <= b THEN a ELSE b
Max(a, b) == IF a >= b THEN a ELSE b

clampNoUpper(v, lo, hi) == Max(lo, v)

clamp(v, lo, hi) == Max(lo, Min(hi, v))

MathUtilsClamp(v, lo, hi) == Max(lo, Min(hi, v))

\* the wait passed to throttle() by initScroll
ThrottleWait == 16

-----------------------------------------------------------------------------
(* CabinScene: public API                                                  *)

SceneInit ==
    [ scrollPercent |-> 0,
      brainVisible  |-> FALSE,
      brainGroup    |-> FALSE,
      screenEditing |-> FALSE,
      \* what the raycast from the pointer through the camera hits
      hover         |-> "none" ]

SceneOnScroll(s, scrollPercent) ==
    [s EXCEPT !.scrollPercent = MathUtilsClamp(scrollPercent, 0, Scale)]

enableScreenEditing(s) ==
    IF s.screenEditing THEN s ELSE [s EXCEPT !.screenEditing = TRUE]

disableScreenEditing(s) ==
    IF ~s.screenEditing THEN s ELSE [s EXCEPT !.screenEditing = FALSE]

\* CabinScene.focusScreenInput (the cursor position is not part of the state)
focusScreenInput(s) ==
    IF ~s.screenEditing THEN enableScreenEditing(s) ELSE s

\* CabinScene.getInteractiveAt: 'tv', 'laptop' or null ("none")
getInteractiveAt(s) == s.hover

\* CabinScene.toggleBrain: the voxel brain is built on first show
toggleBrain(s, show) ==
    [s EXCEPT !.brainGroup = @ \/ show, !.brainVisible = show]

-----------------------------------------------------------------------------
(* CabinScene: the camera path                                             *)

\* [scroll%, position, lookAt], times and coordinates times 100
cameraKeyframes ==
    << [t |-> 0,   pos |-> <<0, 250, 2500>>,     look |-> <<0, 200, 0>>],
       [t |-> 15,  pos |-> <<-200, 220, 1600>>,  look |-> <<0, 180, 0>>],
       [t |-> 30,  pos |-> <<0, 180, 600>>,      look |-> <<0, 160, -100>>],
       [t |-> 45,  pos |-> <<0, 170, 250>>,      look |-> <<0, 160, -200>>],
       [t |-> 55,  pos |-> <<0, 170, 0>>,        look |-> <<-100, 150, -400>>],
       [t |-> 68,  pos |-> <<0, 170, -100>>,     look |-> <<-150, 130, -500>>],
       [t |-> 78,  pos |-> <<-50, 150, -250>>,   look |-> <<-180, 119, -561>>],
       [t |-> 88,  pos |-> <<-140, 130, -450>>,  look |-> <<-180, 119, -561>>],
       [t |-> 100, pos |-> <<-172, 122, -525>>,  look |-> <<-180, 119, -561>> ] >>

NumKeyframes == Len(cameraKeyframes)

\* a vector of rationals with a common denominator
Vec(v, den) == [num |-> v, den |-> den]

\* the cabin door's x positions, in 1/Scale units
DoorClosedX == 0
DoorOpenX == 160
\* the fog densities 0.016 and 0.006, in millionths
FogOutdoor == 16000
FogIndoorDrop == 6000

\* x * x * (3 - 2 * x) taken below lo and above hi as well
smoothstepUnclamped(x, lo, hi) ==
    LET d == hi - lo
        n == x - lo
    IN  [num |-> n * n * (3 * d - 2 * n), den |-> d * d * d]

\* THREE.MathUtils.smoothstep(x, lo, hi), as a fraction over (hi - lo)^3
smoothstep(x, lo, hi) ==
    LET d == hi - lo
        n == x - lo
    IN  IF x <= lo THEN [num |-> 0, den |-> d * d * d]
        ELSE IF x >= hi THEN [num |-> d * d * d, den |-> d * d * d]
        ELSE [num |-> n * n * (3 * d - 2 * n), den |-> d * d * d]

\* scene.fog.density at progress t: 0.016 - indoorFactor * 0.006
fogDensity(t) ==
    LET indoorFactor == smoothstep(t, 30, 50)
    IN  [num |-> FogOutdoor * indoorFactor.den - indoorFactor.num * FogIndoorDrop,
         den |-> indoorFactor.den]

\* cabinDoor.position.x at progress t: lerp(_doorClosedX, _doorOpenX, doorProgress)
doorPosition(t) ==
    LET doorProgress == smoothstep(t, 15, 35)
    IN  [num |-> (doorProgress.den - doorProgress.num) * DoorClosedX
                 + doorProgress.num * DoorOpenX,
         den |-> doorProgress.den]

CamInit ==
    [ t  |-> -1,
      fog   |-> [num |-> FogOutdoor, den |-> 1],
      doorX |-> [num |-> DoorClosedX, den |-> 1],
      k0 |-> 1,
      k1 |-> 2,
      targetPos  |-> Vec(cameraKeyframes[1].pos, 1),
      targetLook |-> Vec(cameraKeyframes[1].look, 1),
      cameraCurrentPos    |-> Vec(cameraKeyframes[1].pos, 1),
      cameraCurrentLookAt |-> Vec(cameraKeyframes[1].look, 1) ]

\* a scan that stops one segment early and has no clause for the end of the table
SegmentIndexShort(t) ==
    LET hits == { i \in 1..(NumKeyframes - 2) :
                    t >= cameraKeyframes[i].t /\ t <= cameraKeyframes[i + 1].t }
    IN  IF hits # {} THEN CHOOSE i \in hits : \A j \in hits : i <= j ELSE 1

\* "Find the two keyframes we're between": the index of k0 (k1 is the next entry)
SegmentIndex(t) ==
    LET hits == { i \in 1..(NumKeyframes - 1) :
                    t >= cameraKeyframes[i].t /\ t <= cameraKeyframes[i + 1].t }
        first == IF hits # {} THEN CHOOSE i \in hits : \A j \in hits : i <= j ELSE 1
    IN  IF t >= cameraKeyframes[NumKeyframes].t THEN NumKeyframes - 1 ELSE first

\* localT taken as the easing, with no smooth step
EaseLinear(n, d) == [num |-> n * d * d, den |-> d * d * d]

\* st = localT * localT * (3 - 2 * localT) for localT = n / d, as a fraction
Ease(n, d) == [num |-> n * n * (3 * d - 2 * n), den |-> d * d * d]

\* THREE.Vector3.lerpVectors(v1, v2, alpha), alpha a fraction
lerpVectors(v1, v2, alpha) ==
    Vec([c \in 1..3 |-> v1[c] * alpha.den + (v2[c] - v1[c]) * alpha.num], alpha.den)

\* the part of _updateCamera that follows the scroll position (camera
\* target, fog, door); delta in seconds
updateCamera(c, t, delta) ==
    LET i      == SegmentIndex(t)
        k0     == cameraKeyframes[i]
        k1     == cameraKeyframes[i + 1]
        segLen == k1.t - k0.t
        \* localT = clamp((t - k0.t) / segLen, 0, 1) is n / segLen
        n      == IF segLen > 0 THEN MathUtilsClamp(t - k0.t, 0, segLen) ELSE 0
        st     == IF segLen > 0 THEN Ease(n, segLen) ELSE [num |-> 0, den |-> 1]
        targetPos  == lerpVectors(k0.pos, k1.pos, st)
        targetLook == lerpVectors(k0.look, k1.look, st)
        \* Vector3.lerp(target, Math.min(3.0 * delta, 1))
        alpha  == Min(3 * delta, 1)
    IN  [ c EXCEPT !.t = t, !.k0 = i, !.k1 = i + 1,
                   !.targetPos = targetPos,
                   !.targetLook = targetLook,
                   !.fog = fogDensity(t),
                   !.doorX = doorPosition(t),
                   !.cameraCurrentPos = IF alpha = 1 THEN targetPos ELSE @,
                   !.cameraCurrentLookAt = IF alpha = 1 THEN targetLook ELSE @ ]

-----------------------------------------------------------------------------
(* UI: scroll handling                                                     *)

UIInit(hasScene, hasTyped) ==
    [ cabinScene         |-> hasScene,
      typedEl            |-> hasTyped,
      brainActive        |-> FALSE,
      isInsideCabin      |-> FALSE,
      isLaptopZoom       |-> FALSE,
      laptopTerminalOpen |-> FALSE,
      progress           |-> 0,
      konamiIndex        |-> 0,
      typingIndex        |-> 0,
      typingCharIndex    |-> 0,
      typingDeleting     |-> FALSE,
      typingTimeout      |-> 0,
      typedText          |-> <<>>,
      hoverHint          |-> "" ]

\* the local `progress` of onScroll
ScrollProgress(scrollTop, docH) ==
    IF docH > 0 THEN clamp((scrollTop * Scale) \div docH, 0, Scale) ELSE 0

Toggle(classes, name, force) ==
    IF force THEN classes \cup {name} ELSE classes \ {name}

\* UI.onScroll: the new ui, scene and body, and the calls made into the scene
onScroll(u, s, b, scrollTop, docH) ==
    LET progress == ScrollProgress(scrollTop, docH)
        inside   == progress > 40
        zoom     == progress > 85
        b1 == IF u.isInsideCabin # inside THEN Toggle(b, "inside-cabin", inside) ELSE b
        b2 == IF u.isLaptopZoom # zoom THEN Toggle(b1, "laptop-zoom", zoom) ELSE b1
        closeTerm == u.isLaptopZoom # zoom /\ ~zoom /\ u.laptopTerminalOpen
        enable  == progress > 85 /\ u.cabinScene /\ ~s.screenEditing
        disable == ~enable /\ progress <= 85 /\ u.cabinScene /\ s.screenEditing
        s1 == IF enable THEN enableScreenEditing(s)
              ELSE IF disable THEN disableScreenEditing(s) ELSE s
        s2 == IF u.cabinScene THEN SceneOnScroll(s1, progress) ELSE s1
        c1 == IF enable THEN << <<"enableScreenEditing", 0, "event">> >>
              ELSE IF disable THEN << <<"disableScreenEditing", 0, "event">> >> ELSE <<>>
        c2 == IF u.cabinScene THEN << <<"onScroll", progress, "event">> >> ELSE <<>>
    IN  [ ui    |-> [u EXCEPT !.progress = progress,
                              !.isInsideCabin = inside,
                              !.isLaptopZoom = zoom,
                              !.laptopTerminalOpen = IF closeTerm THEN FALSE ELSE @],
          scene |-> s2,
          body  |-> b2,
          calls |-> c1 \o c2 ]

-----------------------------------------------------------------------------
(* UI: typing effect                                                       *)

typingPhrases ==
    << <<"b", "r", "a", "i", "n", " ", "g", "r", "o", "w", "e", "r">>,
       <<"e", "n", "t", "r", "e", "p", "r", "e", "n", "e", "u", "r">>,
       <<"b", "u", "i", "l", "d", "e", "r">> >>

brainPhrases ==
    << <<"n", "e", "u", "r", "o", "n", "s">>,
       <<"s", "y", "n", "a", "p", "s", "e", "s">>,
       <<"c", "o", "r", "t", "e", "x">>,
       <<"c", "o", "n", "s", "c", "i", "o", "u", "s", "n", "e", "s", "s">> >>

getCurrentPhrases(u) == IF u.brainActive THEN brainPhrases ELSE typingPhrases

\* String.prototype.slice(0, end)
Slice(word, end) ==
    IF end < 0 THEN SubSeq(word, 1, Max(Len(word) + end, 0))
    ELSE SubSeq(word, 1, Min(end, Len(word)))

\* a pending timer is [id, kind]: "type" calls typeNext, "pause" sets
\* typingDeleting and then calls typeNext
TimerIds(T) == { t.id : t \in T }

\* setTimeout returns an id no pending timer has and no handle still holds
NewTimerId(T, held) ==
    CHOOSE i \in 1..(Cardinality(T) + 2) :
        /\ i \notin TimerIds(T) \cup {held}
        /\ \A j \in 1..(i - 1) : j \in TimerIds(T) \cup {held}

clearTimeout(T, id) == { t \in T : t.id # id }

\* UI.typeNext: the new ui and timers
typeNext(u, T) ==
    LET phrases == getCurrentPhrases(u)
        word    == phrases[(u.typingIndex % Len(phrases)) + 1]
        id      == NewTimerId(T, u.typingTimeout)
    IN  IF ~u.typingDeleting
        THEN LET ci == u.typingCharIndex + 1
             IN  [ ui |-> [u EXCEPT !.typedText = Slice(word, u.typingCharIndex + 1),
                                    !.typingCharIndex = ci,
                                    !.typingTimeout = id],
                   timers |-> T \cup {[id |-> id,
                                       kind |-> IF ci >= Len(word) THEN "pause" ELSE "type"]} ]
        ELSE LET ci == u.typingCharIndex - 1
             IN  [ ui |-> [u EXCEPT !.typedText = Slice(word, ci),
                                    !.typingCharIndex = ci,
                                    !.typingDeleting = IF ci <= 0 THEN FALSE ELSE @,
                                    !.typingIndex = IF ci <= 0 THEN @ + 1 ELSE @,
                                    !.typingTimeout = id],
                   timers |-> T \cup {[id |-> id, kind |-> "type"]} ]

\* the reset without clearTimeout
resetTypingKeepsTimer(u, T) ==
    LET u1 == [u EXCEPT !.typingIndex = 0, !.typingCharIndex = 0, !.typingDeleting = FALSE]
    IN  IF u.typedEl
        THEN typeNext([u1 EXCEPT !.typedText = <<>>], T)
        ELSE [ui |-> u1, timers |-> T]

\* "Reset typing to start fresh with new phrases"
resetTyping(u, T) ==
    LET u1 == [u EXCEPT !.typingIndex = 0, !.typingCharIndex = 0, !.typingDeleting = FALSE]
        T1 == clearTimeout(T, u.typingTimeout)
    IN  IF u.typedEl
        THEN typeNext([u1 EXCEPT !.typedText = <<>>], T1)
        ELSE [ui |-> u1, timers |-> T1]

\* UI.initTypingEffect
initTypingEffect(u, T) ==
    IF u.typedEl THEN typeNext(u, T) ELSE [ui |-> u, timers |-> T]

-----------------------------------------------------------------------------
(* UI: brain toggle, Konami code, terminal                                 *)

konamiSequence ==
    << "ArrowUp", "ArrowUp", "ArrowDown", "ArrowDown",
       "ArrowLeft", "ArrowRight", "ArrowLeft", "ArrowRight", "b", "a" >>

Keys == {"ArrowUp", "ArrowDown", "ArrowLeft", "ArrowRight", "b", "a", "x"}
Commands == {"brain", "help"}

\* the click listener of #brain-toggle
brainToggleClick(u, s, b, T) ==
    LET active == ~u.brainActive
        r == resetTyping([u EXCEPT !.brainActive = active], T)
    IN  [ ui     |-> r.ui,
          scene  |-> IF u.cabinScene THEN toggleBrain(s, active) ELSE s,
          body   |-> Toggle(b, "brain-active", active),
          timers |-> r.timers,
          calls  |-> IF u.cabinScene THEN << <<"toggleBrain", IF active THEN 1 ELSE 0, "event">> >> ELSE <<>> ]

\* triggerBrain that forgets to tell the scene
triggerBrainUiOnly(u, s, b, T) ==
    IF ~u.brainActive
    THEN LET r == resetTyping([u EXCEPT !.brainActive = TRUE], T)
         IN  [ ui |-> r.ui, scene |-> s, body |-> b \cup {"brain-active"},
               timers |-> r.timers, calls |-> <<>> ]
    ELSE [ui |-> u, scene |-> s, body |-> b, timers |-> T, calls |-> <<>>]

\* UI.triggerBrain
triggerBrain(u, s, b, T) ==
    IF ~u.brainActive
    THEN LET r == resetTyping([u EXCEPT !.brainActive = TRUE], T)
         IN  [ ui     |-> r.ui,
               scene  |-> IF u.cabinScene THEN toggleBrain(s, TRUE) ELSE s,
               body   |-> b \cup {"brain-active"},
               timers |-> r.timers,
               calls  |-> IF u.cabinScene THEN << <<"toggleBrain", 1, "event">> >> ELSE <<>> ]
    ELSE [ui |-> u, scene |-> s, body |-> b, timers |-> T, calls |-> <<>>]

\* the Konami keydown listener of initEasterEggs
konamiKeyDown(u, s, b, T, key) ==
    IF key = konamiSequence[u.konamiIndex + 1]
    THEN IF u.konamiIndex + 1 >= Len(konamiSequence)
         THEN triggerBrain([u EXCEPT !.konamiIndex = 0], s, b, T)
         ELSE [ ui |-> [u EXCEPT !.konamiIndex = @ + 1], scene |-> s, body |-> b,
                timers |-> T, calls |-> <<>> ]
    ELSE [ ui |-> [u EXCEPT !.konamiIndex = 0], scene |-> s, body |-> b,
           timers |-> T, calls |-> <<>> ]

\* UI.processCommand: 'brain' toggles, the other commands only print
processCommand(u, s, b, T, cmd) ==
    IF cmd = "brain"
    THEN LET active == ~u.brainActive
         IN  [ ui     |-> [u EXCEPT !.brainActive = active],
               scene  |-> IF u.cabinScene THEN toggleBrain(s, active) ELSE s,
               body   |-> Toggle(b, "brain-active", active),
               timers |-> T,
               calls  |-> IF u.cabinScene THEN << <<"toggleBrain", IF active THEN 1 ELSE 0, "event">> >> ELSE <<>> ]
    ELSE [ui |-> u, scene |-> s, body |-> b, timers |-> T, calls |-> <<>>]

\* a typing timer fires
timerFires(u, T, t) ==
    typeNext([u EXCEPT !.typingDeleting = IF t.kind = "pause" THEN TRUE ELSE @], T \ {t})

-----------------------------------------------------------------------------
(* UI: interactive 3D objects                                              *)

Hits == {"none", "tv", "laptop"}

\* the canvas mousemove listener: tooltip and cursor
canvasMouseMove(u, s) ==
    IF ~u.cabinScene THEN [ui |-> u, scene |-> s, calls |-> <<>>]
    ELSE LET hit == getInteractiveAt(s)
         IN  [ ui |-> [u EXCEPT !.hoverHint =
                          IF hit = "none" THEN ""
                          ELSE IF hit = "tv" THEN "watch kodan" ELSE "open terminal"],
               scene |-> s,
               calls |-> << <<"getInteractiveAt", 0, "event">> >> ]

\* a click listener that focuses the screen on any laptop hit
canvasClickFocusAlways(u, s) ==
    IF ~u.cabinScene THEN [ui |-> u, scene |-> s, calls |-> <<>>]
    ELSE IF u.isLaptopZoom /\ s.screenEditing
    THEN [ ui |-> u, scene |-> focusScreenInput(s),
           calls |-> << <<"focusScreenInput", 0, "event">> >> ]
    ELSE LET hit == getInteractiveAt(s)
         IN  IF hit = "tv"
             THEN [ ui |-> u, scene |-> s,
                    calls |-> << <<"getInteractiveAt", 0, "event">>, <<"window.open", 0, "hit">> >> ]
             ELSE IF hit = "laptop"
             THEN [ ui |-> u, scene |-> focusScreenInput(s),
                    calls |-> << <<"getInteractiveAt", 0, "event">>, <<"focusScreenInput", 0, "hit">> >> ]
             ELSE [ ui |-> u, scene |-> s, calls |-> << <<"getInteractiveAt", 0, "event">> >> ]

\* the canvas click listener: focus the screen, open the link, or nothing
canvasClick(u, s) ==
    IF ~u.cabinScene THEN [ui |-> u, scene |-> s, calls |-> <<>>]
    ELSE IF u.isLaptopZoom /\ s.screenEditing
    THEN [ ui |-> u, scene |-> focusScreenInput(s),
           calls |-> << <<"focusScreenInput", 0, "event">> >> ]
    ELSE LET hit == getInteractiveAt(s)
         IN  IF hit = "tv"
             THEN [ ui |-> u, scene |-> s,
                    calls |-> << <<"getInteractiveAt", 0, "event">>, <<"window.open", 0, "hit">> >> ]
             ELSE IF hit = "laptop" /\ s.screenEditing
             THEN [ ui |-> u, scene |-> focusScreenInput(s),
                    calls |-> << <<"getInteractiveAt", 0, "event">>, <<"focusScreenInput", 0, "hit">> >> ]
             ELSE [ ui |-> u, scene |-> s, calls |-> << <<"getInteractiveAt", 0, "event">> >> ]

-----------------------------------------------------------------------------
(* The scroll specification: scroll events through the 16 ms throttle      *)

ScrollIdle ==
    /\ now = 0
    /\ last = 0
    /\ scrollY = 0
    /\ docHeight = 0
    /\ delivered = 0

PerfIdle == perf = 0
MobileIdle == mh = 0
WipesIdle == wipes = 0
TwinIdle == twin = 0
LoadingIdle == loading = 0
ListenersIdle == listeners = 0
IdleIdle == idle = 0
StarsIdle == stars = 0
KeyedIdle == keyed = 0
LateIdle == LoadingIdle /\ ListenersIdle /\ IdleIdle /\ StarsIdle /\ KeyedIdle

OthersIdle == PerfIdle /\ MobileIdle /\ WipesIdle /\ TwinIdle /\ LateIdle

InitScroll ==
    /\ scrollY \in ScrollTops
    /\ docHeight \in DocHeights
    /\ \E hasScene \in BOOLEAN :
         LET r == onScroll(UIInit(hasScene, TRUE), SceneInit, {}, scrollY, docHeight)
         IN  ui = r.ui /\ scene = r.scene /\ body = r.body
    /\ timers = {}
    /\ now = 0
    /\ last = 0
    /\ delivered = 0
    /\ cam = CamInit
    /\ OthersIdle

\* the closure returned by throttle(): Date.now() is StartTime + now
StartTime == 1000

throttlePasses == (StartTime + now) - last >= ThrottleWait

\* the page scrolls to y and the scroll event reaches the throttled handler
ScrollEvent(y) ==
    /\ delivered < MaxDelivered
    /\ delivered' = delivered + 1
    /\ scrollY' = y
    /\ IF throttlePasses
       THEN LET r == onScroll(ui, scene, body, y, docHeight)
            IN  /\ last' = StartTime + now
                /\ ui' = r.ui
                /\ scene' = r.scene
                /\ body' = r.body
       ELSE UNCHANGED <<last, ui, scene, body>>
    /\ UNCHANGED <<timers, now, docHeight, cam, perf, mh, wipes, twin, lateVars>>

Tick(d) ==
    /\ now + d <= MaxTime
    /\ now' = now + d
    /\ UNCHANGED <<uiVars, last, scrollY, docHeight, delivered, cam, perf, mh, wipes, twin, lateVars>>

NextScroll ==
    \/ \E y \in ScrollTops : ScrollEvent(y)
    \/ \E d \in TickSteps : Tick(d)

SpecScroll == InitScroll /\ [][NextScroll]_vars

-----------------------------------------------------------------------------
(* The camera specification: the scene at any scroll progress, animated    *)

\* frame deltas in seconds: two frames at one timestamp, or a long frame
FrameDeltas == {0, 1}
SceneScrollInputs == {-10, 0, 50, 100, 110}

InitCamera ==
    /\ ui = UIInit(TRUE, TRUE)
    /\ \E p \in 0..Scale : scene = SceneOnScroll(SceneInit, p)
    /\ body = {}
    /\ timers = {}
    /\ ScrollIdle
    /\ cam = CamInit
    /\ OthersIdle

\* CabinScene.onScroll called with any number
CamScroll(p) ==
    /\ scene' = SceneOnScroll(scene, p)
    /\ UNCHANGED <<ui, body, timers, scrollVars, cam, perf, mh, wipes, twin, lateVars>>

\* one animation frame
UpdateCamera(delta) ==
    /\ cam' = updateCamera(cam, scene.scrollPercent, delta)
    /\ UNCHANGED <<uiVars, scrollVars, perf, mh, wipes, twin, lateVars>>

NextCamera ==
    \/ \E p \in SceneScrollInputs : CamScroll(p)
    \/ \E delta \in FrameDeltas : UpdateCamera(delta)

SpecCamera == InitCamera /\ [][NextCamera]_vars

-----------------------------------------------------------------------------
(* MobileHandler: performance detection, and the renderer built from it    *)

\* navigator.deviceMemory and hardwareConcurrency; 0 stands for undefined
MemValues == {0, 2, 8}
CoreValues == {0, 2, 8}
\* "none": no navigator.connection; "unset": a connection without effectiveType
ConnValues == {"none", "unset", "3g", "2g"}
\* window.devicePixelRatio times 100
DprValues == {75, 100, 200}

Devices ==
    [ mem : MemValues, cores : CoreValues, conn : ConnValues,
      isMobile : BOOLEAN, isTablet : BOOLEAN ]

NoSettings ==
    [ tier |-> "none", pixelRatio |-> 0, particles |-> 0,
      shadows |-> FALSE, antialias |-> FALSE ]

\* the score summed by _detectPerformanceTier
PerfScore(d) ==
    LET mem   == IF d.mem # 0 THEN d.mem ELSE 4
        cores == IF d.cores # 0 THEN d.cores ELSE 4
        effectiveType == IF d.conn = "unset" THEN "4g" ELSE d.conn
    IN    (IF mem >= 8 THEN 3 ELSE IF mem >= 4 THEN 2 ELSE 1)
        + (IF cores >= 8 THEN 3 ELSE IF cores >= 4 THEN 2 ELSE 1)
        + (IF d.conn = "none" THEN 2
           ELSE IF effectiveType = "4g" THEN 2
           ELSE IF effectiveType = "3g" THEN 1 ELSE 0)
        + (IF ~d.isMobile /\ ~d.isTablet THEN 2 ELSE 0)

\* MobileHandler._detectPerformanceTier; pixel ratios times 100
detectPerformanceTier(d, dpr) ==
    LET score == PerfScore(d)
    IN  IF score <= 4
        THEN [ tier |-> "low", pixelRatio |-> 100, particles |-> 50,
               shadows |-> FALSE, antialias |-> FALSE ]
        ELSE IF score <= 7
        THEN [ tier |-> "mid", pixelRatio |-> 150, particles |-> 100,
               shadows |-> FALSE, antialias |-> TRUE ]
        ELSE [ tier |-> "high", pixelRatio |-> IF dpr # 0 THEN dpr ELSE 100,
               particles |-> 200, shadows |-> TRUE, antialias |-> TRUE ]

NoRenderer ==
    [ tier |-> "none", pixelRatio |-> 0, shadows |-> FALSE, antialias |-> FALSE ]

\* CabinScene._init and _createRenderer: the settings come from a MobileHandler
\* that was constructed and never initialised, so isMobile and isTablet are false
createRenderer(d, dpr) ==
    LET perfSettings == detectPerformanceTier(
                            [d EXCEPT !.isMobile = FALSE, !.isTablet = FALSE], dpr)
        performanceTier == perfSettings.tier
        maxPixelRatio == IF perfSettings.pixelRatio # 0
                         THEN Min(perfSettings.pixelRatio, 150)
                         ELSE Min(dpr, 150)
    IN  [ tier |-> performanceTier,
          pixelRatio |-> maxPixelRatio,
          shadows |-> (performanceTier = "high"),
          antialias |-> (performanceTier # "low") ]

InitPerf ==
    /\ ui = UIInit(TRUE, TRUE)
    /\ scene = SceneInit
    /\ body = {}
    /\ timers = {}
    /\ ScrollIdle
    /\ cam = CamInit
    /\ \E d1 \in Devices, d2 \in Devices, dpr \in DprValues :
         perf = [ dev |-> <<d1, d2>>, dpr |-> dpr,
                  cached |-> <<NoSettings, NoSettings>>,
                  renderer |-> <<NoRenderer, NoRenderer>> ]
    /\ MobileIdle /\ WipesIdle /\ TwinIdle /\ LateIdle

\* MobileHandler.getPerformanceSettings on device k: detect once, then cache
GetPerformanceSettings(k) ==
    /\ perf.cached[k] = NoSettings
    /\ perf' = [perf EXCEPT !.cached[k] = detectPerformanceTier(perf.dev[k], perf.dpr)]
    /\ UNCHANGED <<uiVars, scrollVars, cam, mh, wipes, twin, lateVars>>

\* new CabinScene() on device k
CreateRenderer(k) ==
    /\ perf.renderer[k] = NoRenderer
    /\ perf' = [perf EXCEPT !.renderer[k] = createRenderer(perf.dev[k], perf.dpr)]
    /\ UNCHANGED <<uiVars, scrollVars, cam, mh, wipes, twin, lateVars>>

NextPerf ==
    \/ \E k \in 1..2 : GetPerformanceSettings(k)
    \/ \E k \in 1..2 : CreateRenderer(k)

SpecPerf == InitPerf /\ [][NextPerf]_vars

-----------------------------------------------------------------------------
(* The brain specification: button, Konami code, terminal, typing timers   *)

MaxTypingIndex == 1

\* the keydown events observed: suffixes holds every k for which the k most
\* recent keys are the first k keys of the Konami sequence; fired tells
\* whether the most recent keydown called triggerBrain
KeyedInit == [suffixes |-> {}, fired |-> FALSE]

keyObserved(k, u, key) ==
    [ suffixes |-> { n + 1 : n \in { m \in k.suffixes \cup {0} :
                                       m < Len(konamiSequence)
                                       /\ key = konamiSequence[m + 1] } },
      fired |-> (key = konamiSequence[u.konamiIndex + 1]
                 /\ u.konamiIndex + 1 >= Len(konamiSequence)) ]

InitBrain ==
    /\ \E hasScene \in BOOLEAN, hasTyped \in BOOLEAN :
         LET r == initTypingEffect(UIInit(hasScene, hasTyped), {})
         IN  ui = r.ui /\ timers = r.timers
    /\ scene = SceneInit
    /\ body = {}
    /\ ScrollIdle
    /\ cam = CamInit
    /\ PerfIdle /\ MobileIdle /\ WipesIdle /\ TwinIdle
    /\ LoadingIdle /\ ListenersIdle /\ IdleIdle /\ StarsIdle
    /\ keyed = KeyedInit

Apply(r) ==
    /\ ui' = r.ui
    /\ scene' = r.scene
    /\ body' = r.body
    /\ timers' = r.timers
    /\ UNCHANGED <<scrollVars, cam, perf, mh, wipes, twin, loading, listeners, idle, stars>>

BrainToggleClick ==
    /\ Apply(brainToggleClick(ui, scene, body, timers))
    /\ UNCHANGED keyed

KeyDown(key) ==
    /\ Apply(konamiKeyDown(ui, scene, body, timers, key))
    /\ keyed' = keyObserved(keyed, ui, key)

TerminalCommand(cmd) ==
    /\ Apply(processCommand(ui, scene, body, timers, cmd))
    /\ UNCHANGED keyed

TimerFires(t) ==
    /\ t \in timers
    /\ ui.typingIndex <= MaxTypingIndex
    /\ LET r == timerFires(ui, timers, t)
       IN  ui' = r.ui /\ timers' = r.timers
    /\ UNCHANGED <<scene, body, scrollVars, cam, perf, mh, wipes, twin, lateVars>>

NextBrain ==
    \/ BrainToggleClick
    \/ \E key \in Keys : KeyDown(key)
    \/ \E cmd \in Commands : TerminalCommand(cmd)
    \/ \E t \in timers : TimerFires(t)

SpecBrain == InitBrain /\ [][NextBrain]_vars

-----------------------------------------------------------------------------
(* The flow specification: two runs of the page receive the same events;   *)
(* each scene's camera, and so what the pointer hits, moves on its own     *)

MaxFlowEvents == 4
FlowScrollTops == {0, 50, 90, 100}
FlowDocHeight == 100

InitFlow ==
    /\ LET r == onScroll(UIInit(TRUE, TRUE), SceneInit, {}, 0, FlowDocHeight)
           t == initTypingEffect(r.ui, {})
       IN  /\ ui = t.ui /\ scene = r.scene /\ body = r.body /\ timers = t.timers
           /\ twin = [ ui |-> t.ui, scene |-> r.scene, body |-> r.body,
                       timers |-> t.timers, log1 |-> <<>>, log2 |-> <<>>, n |-> 0 ]
    /\ ScrollIdle
    /\ cam = CamInit
    /\ PerfIdle /\ MobileIdle /\ WipesIdle /\ LateIdle

\* both runs handle one event: r1 and r2 are the handler's results in each run
Both(r1, r2) ==
    /\ twin.n < MaxFlowEvents
    /\ ui' = r1.ui
    /\ scene' = r1.scene
    /\ body' = r1.body
    /\ timers' = r1.timers
    /\ twin' = [ ui |-> r2.ui, scene |-> r2.scene, body |-> r2.body,
                 timers |-> r2.timers,
                 log1 |-> twin.log1 \o r1.calls,
                 log2 |-> twin.log2 \o r2.calls,
                 n |-> twin.n + 1 ]
    /\ UNCHANGED <<scrollVars, cam, perf, mh, wipes, lateVars>>

\* carry over the fields a handler does not return
With(r, b, T) ==
    [ui |-> r.ui, scene |-> r.scene, body |-> b, timers |-> T, calls |-> r.calls]

FlowScroll(y) ==
    Both(With(onScroll(ui, scene, body, y, FlowDocHeight), 
              onScroll(ui, scene, body, y, FlowDocHeight).body, timers),
         With(onScroll(twin.ui, twin.scene, twin.body, y, FlowDocHeight),
              onScroll(twin.ui, twin.scene, twin.body, y, FlowDocHeight).body, twin.timers))

FlowMouseMove ==
    Both(With(canvasMouseMove(ui, scene), body, timers),
         With(canvasMouseMove(twin.ui, twin.scene), twin.body, twin.timers))

FlowClick ==
    Both(With(canvasClick(ui, scene), body, timers),
         With(canvasClick(twin.ui, twin.scene), twin.body, twin.timers))

FlowBrainClick ==
    Both(brainToggleClick(ui, scene, body, timers),
         brainToggleClick(twin.ui, twin.scene, twin.body, twin.timers))

FlowKonami ==
    Both(triggerBrain(ui, scene, body, timers),
         triggerBrain(twin.ui, twin.scene, twin.body, twin.timers))

\* an animation frame of the first run's scene moves its camera
FlowFrame1(h) ==
    /\ scene' = [scene EXCEPT !.hover = h]
    /\ UNCHANGED <<ui, body, timers, scrollVars, cam, perf, mh, wipes, twin, lateVars>>

\* an animation frame of the second run's scene moves its camera
FlowFrame2(h) ==
    /\ twin' = [twin EXCEPT !.scene.hover = h]
    /\ UNCHANGED <<uiVars, scrollVars, cam, perf, mh, wipes, lateVars>>

NextFlow ==
    \/ \E y \in FlowScrollTops : FlowScroll(y)
    \/ FlowMouseMove
    \/ FlowClick
    \/ FlowBrainClick
    \/ FlowKonami
    \/ \E h \in Hits : FlowFrame1(h)
    \/ \E h \in Hits : FlowFrame2(h)

SpecFlow == InitFlow /\ [][NextFlow]_vars

-----------------------------------------------------------------------------
(* MobileHandler: parallax and swipes                                      *)

\* 1.0 of the parallax signal, in fixed point
PScale == 25
\* window.innerWidth and innerHeight, in px
InnerSize == 2

SwipeThreshold == 50
SwipeTimeLimit == 300
EdgeSwipeZone == 30

MobileInit(hasOnSwipe, reduced) ==
    [ parallax             |-> <<0, 0>>,
      targetParallax       |-> <<0, 0>>,
      touchStart           |-> [x |-> 0, y |-> 0, time |-> 0, isEdgeSwipe |-> FALSE],
      menuOpen             |-> FALSE,
      bodyLocked           |-> FALSE,
      prefersReducedMotion |-> reduced,
      onSwipe              |-> hasOnSwipe,
      \* the last touchend that reached the swipe test, and what it called
      ended                |-> [seen |-> FALSE, dx |-> 0, dy |-> 0, dt |-> 0,
                                edge |-> FALSE, menu |-> FALSE, called |-> "none"],
      swipes               |-> 0 ]

Abs(x) == IF x < 0 THEN -x ELSE x

\* MobileHandler._lerp(a, b, 0.08), rounded down to the fixed-point grid
lerp(a, b) == a + ((b - a) * 8) \div 100

\* MobileHandler._clamp
mhClamp(val, lo, hi) == Max(lo, Min(hi, val))

\* _onTouchMove: the touch position normalised by the window size
onTouchMove(m, touches, clientX, clientY) ==
    IF touches # 1 THEN m
    ELSE [m EXCEPT !.targetParallax =
            << (clientX * 2 * PScale) \div InnerSize - PScale,
               (clientY * 2 * PScale) \div InnerSize - PScale >>]

\* _onDeviceOrientation: gamma / 45 and (beta - 45) / 45, clamped
onDeviceOrientation(m, beta, gamma) ==
    IF m.prefersReducedMotion THEN m
    ELSE [m EXCEPT !.targetParallax =
            << mhClamp((gamma * PScale) \div 45, -PScale, PScale),
               mhClamp(((beta - 45) * PScale) \div 45, -PScale, PScale) >>]

\* one turn of the loop of _startParallaxLoop
parallaxLoop(m) ==
    IF m.prefersReducedMotion THEN [m EXCEPT !.parallax = <<0, 0>>]
    ELSE [m EXCEPT !.parallax = << lerp(m.parallax[1], m.targetParallax[1]),
                                   lerp(m.parallax[2], m.targetParallax[2]) >>]

getParallaxValues(m) == [x |-> m.parallax[1], y |-> m.parallax[2]]

\* _onTouchStart at time `at`
onTouchStart(m, touches, clientX, clientY, at) ==
    IF touches # 1 THEN m
    ELSE [m EXCEPT !.touchStart =
            [ x |-> clientX, y |-> clientY, time |-> at,
              isEdgeSwipe |-> (clientX < EdgeSwipeZone /\ ~m.menuOpen) ]]

\* _openMenu with _lockBodyScroll, _closeMenu with _unlockBodyScroll
openMenu(m) == [m EXCEPT !.menuOpen = TRUE, !.bodyLocked = TRUE]
closeMenu(m) == [m EXCEPT !.menuOpen = FALSE, !.bodyLocked = FALSE]

\* the swipe test without Math.abs on dx
IsSwipeNoAbs(dx, dy, dt) ==
    dt < SwipeTimeLimit /\ dx > SwipeThreshold /\ dx > Abs(dy)

\* the swipe test of _onTouchEnd
IsSwipe(dx, dy, dt) ==
    dt < SwipeTimeLimit /\ Abs(dx) > SwipeThreshold /\ Abs(dx) > Abs(dy)

\* _onTouchEnd at time `at`
onTouchEnd(m, changedTouches, clientX, clientY, at) ==
    IF changedTouches = 0 THEN m
    ELSE LET dx == clientX - m.touchStart.x
             dy == clientY - m.touchStart.y
             dt == at - m.touchStart.time
             direction == IF dx > 0 THEN "right" ELSE "left"
             seen == [ seen |-> TRUE, dx |-> dx, dy |-> dy, dt |-> dt,
                       edge |-> m.touchStart.isEdgeSwipe, menu |-> m.menuOpen,
                       called |-> "none" ]
         IN  IF ~IsSwipe(dx, dy, dt) THEN [m EXCEPT !.ended = seen]
             ELSE IF m.touchStart.isEdgeSwipe /\ direction = "right"
             THEN [openMenu(m) EXCEPT !.ended = seen]
             ELSE IF m.menuOpen /\ direction = "right"
             THEN [closeMenu(m) EXCEPT !.ended = seen]
             ELSE IF m.onSwipe
             THEN [m EXCEPT !.ended = [seen EXCEPT !.called = direction],
                            !.swipes = (@ + 1) % 2]
             ELSE [m EXCEPT !.ended = seen]

-----------------------------------------------------------------------------
(* The parallax specification: touch moves, orientation, animation frames  *)

TouchXs == {-1, 0, 1, 2, 3}
TouchYs == {0, 1, 2}
Betas == {-180, 45, 180}
Gammas == {-90, 0, 90}

NotMobile == <<uiVars, scrollVars, cam, perf, wipes, twin, lateVars>>

InitParallax ==
    /\ ui = UIInit(TRUE, TRUE)
    /\ scene = SceneInit
    /\ body = {}
    /\ timers = {}
    /\ ScrollIdle
    /\ cam = CamInit
    /\ \E reduced \in BOOLEAN : mh = MobileInit(TRUE, reduced)
    /\ PerfIdle /\ WipesIdle /\ TwinIdle /\ LateIdle

TouchMove(touches, x, y) ==
    /\ mh' = onTouchMove(mh, touches, x, y)
    /\ UNCHANGED NotMobile

DeviceOrientation(beta, gamma) ==
    /\ mh' = onDeviceOrientation(mh, beta, gamma)
    /\ UNCHANGED NotMobile

ParallaxFrame ==
    /\ mh' = parallaxLoop(mh)
    /\ UNCHANGED NotMobile

\* the change listener of the prefers-reduced-motion media query
ReducedMotionChange(matches) ==
    /\ mh' = [mh EXCEPT !.prefersReducedMotion = matches]
    /\ UNCHANGED NotMobile

NextParallax ==
    \/ \E touches \in 1..2, x \in TouchXs, y \in TouchYs : TouchMove(touches, x, y)
    \/ \E beta \in Betas, gamma \in Gammas : DeviceOrientation(beta, gamma)
    \/ ParallaxFrame
    \/ \E matches \in BOOLEAN : ReducedMotionChange(matches)

SpecParallax == InitParallax /\ [][NextParallax]_vars

-----------------------------------------------------------------------------
(* The swipe specification: touchstart, touchend and the clock             *)

SwipeXs == {10, 60, 110, 111}
SwipeYs == {0, 51}
SwipeTicks == {150}
MaxSwipeTime == 450

InitSwipe ==
    /\ ui = UIInit(TRUE, TRUE)
    /\ scene = SceneInit
    /\ body = {}
    /\ timers = {}
    /\ ScrollIdle
    /\ cam = CamInit
    /\ \E hasOnSwipe \in BOOLEAN : mh = MobileInit(hasOnSwipe, FALSE)
    /\ PerfIdle /\ WipesIdle /\ TwinIdle /\ LateIdle

TouchStart(touches, x, y) ==
    /\ mh' = onTouchStart(mh, touches, x, y, now)
    /\ UNCHANGED NotMobile

TouchEnd(changedTouches, x, y) ==
    /\ mh' = onTouchEnd(mh, changedTouches, x, y, now)
    /\ UNCHANGED NotMobile

SwipeTick(d) ==
    /\ now + d <= MaxSwipeTime
    /\ now' = now + d
    /\ UNCHANGED <<uiVars, last, scrollY, docHeight, delivered, cam, perf, mh, wipes, twin, lateVars>>

NextSwipe ==
    \/ \E touches \in 1..2, x \in SwipeXs, y \in SwipeYs : TouchStart(touches, x, y)
    \/ \E n \in 0..1, x \in SwipeXs, y \in SwipeYs : TouchEnd(n, x, y)
    \/ \E d \in SwipeTicks : SwipeTick(d)

SpecSwipe == InitSwipe /\ [][NextSwipe]_vars

-----------------------------------------------------------------------------
(* AsciiOverlay: wipe transitions                                          *)

WipeCols == 20
WipeRows == 12
MaxWipes == 1

\* totalSteps: the number of cell groups
totalSteps(dir) == IF dir = "left" THEN WipeCols ELSE WipeRows

\* an unfill that walks the groups backwards
unfillGroupReversed(w, step) == totalSteps(w.dir) - 1 - step

\* the group unfillStep(step) deactivates: cells[step]
unfillGroup(w, step) == step

\* fillStep(step) of the transition w
fillStep(w, step) ==
    IF step >= totalSteps(w.dir)
    THEN [w EXCEPT !.called = IF w.callback THEN @ + 1 ELSE @,
                   !.activeAtCall = w.active,
                   !.pending = <<"unfill", 0>>]
    ELSE [w EXCEPT !.active = @ \cup {step},
                   !.activated = Append(@, step),
                   !.pending = <<"fill", step + 1>>]

\* unfillStep(step) of the transition w
unfillStep(w, step) ==
    IF step >= totalSteps(w.dir)
    THEN [w EXCEPT !.inDocument = FALSE, !.pending = <<"none", 0>>]
    ELSE [w EXCEPT !.active = @ \ {unfillGroup(w, step)},
                   !.deactivated = Append(@, unfillGroup(w, step)),
                   !.pending = <<"unfill", step + 1>>]

\* createWipeTransition(direction, callback): the overlay is appended and
\* fillStep(0) runs before it returns
createWipeTransition(dir, hasCallback) ==
    fillStep([ dir |-> dir, callback |-> hasCallback, inDocument |-> TRUE,
               active |-> {}, activated |-> <<>>, deactivated |-> <<>>,
               called |-> 0, activeAtCall |-> {}, pending |-> <<"none", 0>> ], 0)

InitWipe ==
    /\ ui = UIInit(TRUE, TRUE)
    /\ scene = SceneInit
    /\ body = {}
    /\ timers = {}
    /\ ScrollIdle
    /\ cam = CamInit
    /\ wipes = <<>>
    /\ PerfIdle /\ MobileIdle /\ TwinIdle /\ LateIdle

NotWipes == <<uiVars, scrollVars, cam, perf, mh, twin, lateVars>>

CreateWipe(dir, hasCallback) ==
    /\ Len(wipes) < MaxWipes
    /\ wipes' = Append(wipes, createWipeTransition(dir, hasCallback))
    /\ UNCHANGED NotWipes

\* the pending setTimeout callback of transition i runs
WipeTimer(i) ==
    /\ wipes[i].pending[1] # "none"
    /\ wipes' = [wipes EXCEPT ![i] =
                    IF @.pending[1] = "fill" THEN fillStep(@, @.pending[2])
                    ELSE unfillStep(@, @.pending[2])]
    /\ UNCHANGED NotWipes

NextWipe ==
    \/ \E dir \in {"left", "down"}, hasCallback \in BOOLEAN : CreateWipe(dir, hasCallback)
    \/ \E i \in 1..Len(wipes) : WipeTimer(i)

SpecWipe == InitWipe /\ [][NextWipe]_vars

-----------------------------------------------------------------------------
(* The loading specification: the ASCII loading screen                     *)
(* (src/ascii-renderer.js:1020).  The art is ART.castleLoading joined by   *)
(* newlines; its characters are modelled by their positions 1..TotalChars. *)

TotalChars == 1616
CharsPerTick == 6

NotLoading == <<uiVars, scrollVars, cam, perf, mh, wipes, twin, listeners, idle, stars, keyed>>

\* Math.round of the non-negative rational n / d
Round(n, d) == (2 * n + d) \div (2 * d)

\* fullText.substring(from, to), as character positions
substring(from, to) == [i \in 1..(to - from) |-> from + i]

LoadingInit ==
    [ started      |-> FALSE,
      cbIsFunction |-> FALSE,
      idx          |-> 0,
      art          |-> <<>>,
      pct          |-> 0,
      attached     |-> FALSE,
      opacity      |-> 1,
      loadingDone  |-> FALSE,
      calls        |-> 0,
      timer        |-> "none" ]

\* the else-branch of tick: pause 600 ms before the fade
tickDone(ld) == [ld EXCEPT !.timer = "pause"]

tickStopsEarly(ld) ==
    IF ld.idx + CharsPerTick < TotalChars
    THEN LET end == Min(ld.idx + CharsPerTick, TotalChars)
         IN  [ld EXCEPT !.art = ld.art \o substring(ld.idx, end),
                        !.idx = end,
                        !.pct = Round(end * 100, TotalChars),
                        !.timer = "tick"]
    ELSE tickDone(ld)

tick(ld) ==
    IF ld.idx < TotalChars
    THEN LET end == Min(ld.idx + CharsPerTick, TotalChars)
         IN  [ld EXCEPT !.art = ld.art \o substring(ld.idx, end),
                        !.idx = end,
                        !.pct = Round(end * 100, TotalChars),
                        !.timer = "tick"]
    ELSE tickDone(ld)

startLoadingAnimation(ld, cbIsFunction) ==
    tick([ld EXCEPT !.started = TRUE,
                    !.cbIsFunction = cbIsFunction,
                    !.attached = TRUE,
                    !.pct = 0])

\* the 600 ms callback: start the fade, schedule the removal
fadeOut(ld) == [ld EXCEPT !.opacity = 0, !.timer = "fade"]

\* the 800 ms callback: remove the screen, set the flag, call back
finish(ld) ==
    [ld EXCEPT !.attached = FALSE,
               !.loadingDone = TRUE,
               !.calls = IF ld.cbIsFunction THEN ld.calls + 1 ELSE ld.calls,
               !.timer = "none"]

InitLoading ==
    /\ ui = UIInit(FALSE, FALSE)
    /\ scene = SceneInit
    /\ body = {}
    /\ timers = {}
    /\ ScrollIdle
    /\ cam = CamInit
    /\ PerfIdle /\ MobileIdle /\ WipesIdle /\ TwinIdle
    /\ ListenersIdle /\ IdleIdle /\ StarsIdle /\ KeyedIdle
    /\ loading = LoadingInit

StartLoading(cbIsFunction) ==
    /\ ~loading.started
    /\ loading' = startLoadingAnimation(loading, cbIsFunction)
    /\ UNCHANGED NotLoading

LoadingTick ==
    /\ loading.timer = "tick"
    /\ loading' = tick(loading)
    /\ UNCHANGED NotLoading

LoadingPause ==
    /\ loading.timer = "pause"
    /\ loading' = fadeOut(loading)
    /\ UNCHANGED NotLoading

LoadingFade ==
    /\ loading.timer = "fade"
    /\ loading' = finish(loading)
    /\ UNCHANGED NotLoading

LoadingTimers == LoadingTick \/ LoadingPause \/ LoadingFade

NextLoading ==
    \/ \E f \in BOOLEAN : StartLoading(f)
    \/ LoadingTick
    \/ LoadingPause
    \/ LoadingFade

\* a pending setTimeout callback eventually runs
SpecLoading == InitLoading /\ [][NextLoading]_vars /\ WF_vars(LoadingTimers)

-----------------------------------------------------------------------------
(* The listener specification: what a MobileHandler registers with the     *)
(* browser and what destroy() takes back (src/unnamed/part_004:176-316).   *)
(* Every Function.prototype.bind call and every function expression makes  *)
(* a new function object, identified here by the generation number gen.    *)
(* What the invoked handlers do to the parallax and swipe state is the     *)
(* subject of the parallax and swipe specifications; here a dispatch       *)
(* records which handlers the browser invoked.                             *)

MaxInits == 2
MaxRequests == 2

ListenerKinds ==
    {"touchstart", "touchmove", "touchend", "preventDoubleTapZoom",
     "deviceorientation", "resize", "orientationchange", "change"}

EventTypes ==
    {"touchstart", "touchmove", "touchend", "deviceorientation",
     "resize", "orientationchange", "change"}

\* the event type a listener of kind k was added for
EventOf(k) == IF k = "preventDoubleTapZoom" THEN "touchend" ELSE k

\* hasTouch, hasOrientation, DeviceOrientationEvent.requestPermission is a
\* function (iOS 13+), prefers-reduced-motion
ListenerDevices ==
    { d \in [hasTouch : BOOLEAN, hasOrientation : BOOLEAN,
             needsPermission : BOOLEAN, reducedMotion : BOOLEAN] :
        d.needsPermission => d.hasOrientation }

NotListeners == <<uiVars, scrollVars, cam, perf, mh, wipes, twin, loading, idle, stars, keyed>>

ListenersInit(d) ==
    [ dev       |-> d,
      gen       |-> 0,
      inits     |-> 0,
      requests  |-> 0,
      reg       |-> {},                          \* <<kind, gen>> added and not removed
      bound     |-> [k \in ListenerKinds |-> 0], \* this._bound, 0 for undefined
      loops     |-> {},                          \* parallax loops with a frame requested
      rafId     |-> 0,                           \* the loop this._rafId belongs to, 0 for null
      pending   |-> 0,                           \* requestPermission() promises not yet settled
      vh        |-> FALSE,                       \* the --vh custom property is set
      vhTimer   |-> FALSE,                       \* the 150 ms timer of _onOrientationChange
      destroyed |-> FALSE,
      afterDestroy |-> {} ]                      \* handlers invoked after destroy() returned

\* this._bound[k] = a new function; target.addEventListener(type, it)
addListeners(l, kinds, g) ==
    [l EXCEPT !.reg = l.reg \cup {<<k, g>> : k \in kinds},
              !.bound = [k \in ListenerKinds |-> IF k \in kinds THEN g ELSE l.bound[k]]]

bindOrientationListener(l, g) == addListeners(l, {"deviceorientation"}, g)

mhInit(l) ==
    LET g  == l.gen + 1
        d  == l.dev
        kinds == {"change", "resize", "orientationchange"}
                 \cup (IF d.hasTouch
                       THEN {"touchstart", "touchmove", "touchend", "preventDoubleTapZoom"}
                       ELSE {})
                 \cup (IF d.hasOrientation /\ ~d.reducedMotion /\ ~d.needsPermission
                       THEN {"deviceorientation"}
                       ELSE {})
        l1 == addListeners(l, kinds, g)
    IN  [l1 EXCEPT !.gen = g,
                   !.inits = l.inits + 1,
                   !.vh = TRUE,
                   !.loops = l.loops \cup {g},
                   !.rafId = g]

\* up to the await; without requestPermission it returns true at once
requestOrientationPermission(l) ==
    IF l.dev.needsPermission
    THEN [l EXCEPT !.requests = l.requests + 1, !.pending = l.pending + 1]
    ELSE [l EXCEPT !.requests = l.requests + 1]

\* after the await
permissionSettled(l, granted) ==
    LET l1 == [l EXCEPT !.pending = l.pending - 1]
    IN  IF granted
        THEN [bindOrientationListener(l1, l.gen + 1) EXCEPT !.gen = l.gen + 1]
        ELSE l1

\* removeEventListener for the functions this._bound still refers to
destroy(l) ==
    [l EXCEPT !.loops = IF l.rafId # 0 THEN l.loops \ {l.rafId} ELSE l.loops,
              !.rafId = 0,
              !.reg = {r \in l.reg : l.bound[r[1]] # r[2]},
              !.vh = FALSE,
              !.destroyed = TRUE]

\* the browser dispatches an event: every listener added for it runs
dispatch(l, type) ==
    LET invoked == {r \in l.reg : EventOf(r[1]) = type}
        kinds   == {r[1] : r \in invoked}
    IN  [l EXCEPT !.vh = IF "resize" \in kinds THEN TRUE ELSE l.vh,
                  !.vhTimer = IF "orientationchange" \in kinds THEN TRUE ELSE l.vhTimer,
                  !.afterDestroy = IF l.destroyed THEN l.afterDestroy \cup kinds
                                   ELSE l.afterDestroy]

\* an animation frame: every requested loop callback runs and requests the
\* next frame, the last one to run leaves its request id in _rafId
animationFrame(l) ==
    [l EXCEPT !.rafId = CHOOSE g \in l.loops : \A h \in l.loops : h <= g,
              !.afterDestroy = IF l.destroyed THEN l.afterDestroy \cup {"loop"}
                               ELSE l.afterDestroy]

InitListeners ==
    /\ ui = UIInit(FALSE, FALSE)
    /\ scene = SceneInit
    /\ body = {}
    /\ timers = {}
    /\ ScrollIdle
    /\ cam = CamInit
    /\ PerfIdle /\ MobileIdle /\ WipesIdle /\ TwinIdle
    /\ LoadingIdle /\ IdleIdle /\ StarsIdle /\ KeyedIdle
    /\ \E d \in ListenerDevices : listeners = ListenersInit(d)

MhInit ==
    /\ ~listeners.destroyed
    /\ listeners.inits < MaxInits
    /\ listeners' = mhInit(listeners)
    /\ UNCHANGED NotListeners

RequestOrientationPermission ==
    /\ ~listeners.destroyed
    /\ listeners.requests < MaxRequests
    /\ listeners' = requestOrientationPermission(listeners)
    /\ UNCHANGED NotListeners

PermissionSettled(granted) ==
    /\ listeners.pending > 0
    /\ listeners' = permissionSettled(listeners, granted)
    /\ UNCHANGED NotListeners

Destroy ==
    /\ ~listeners.destroyed
    /\ listeners' = destroy(listeners)
    /\ UNCHANGED NotListeners

Dispatch(type) ==
    /\ listeners' = dispatch(listeners, type)
    /\ UNCHANGED NotListeners

AnimationFrame ==
    /\ listeners.loops # {}
    /\ listeners' = animationFrame(listeners)
    /\ UNCHANGED NotListeners

ViewportTimer ==
    /\ listeners.vhTimer
    /\ listeners' = [listeners EXCEPT !.vhTimer = FALSE, !.vh = TRUE]
    /\ UNCHANGED NotListeners

NextListeners ==
    \/ MhInit
    \/ RequestOrientationPermission
    \/ \E granted \in BOOLEAN : PermissionSettled(granted)
    \/ Destroy
    \/ \E type \in EventTypes : Dispatch(type)
    \/ AnimationFrame
    \/ ViewportTimer

SpecListeners == InitListeners /\ [][NextListeners]_vars

-----------------------------------------------------------------------------
(* The idle specification: UI.initIdleDetection                            *)
(* (src/ui-controller.js:930).  Each of the five event types has its own   *)
(* throttle closure; times are in ms and Date.now() is StartTime + now.    *)

IdleWait == 30000
IdleThrottleWait == 1000
MaxIdleEvents == 3
MaxIdleTicks == 5
IdleTickSteps == {500, 29000}

IdleEvents == {"mousemove", "keydown", "scroll", "touchstart", "click"}

NotIdleVars == <<ui, scene, timers, last, scrollY, docHeight, delivered,
                 cam, perf, mh, wipes, twin, loading, listeners, stars, keyed>>

\* resetIdle at Date.now() = at, without clearTimeout
resetIdleKeepsTimer(i, b, at) ==
    [ idle |-> [i EXCEPT !.idle = FALSE,
                         !.pending = i.pending \cup {at + IdleWait},
                         !.idleTimer = at + IdleWait],
      body |-> b \ {"idle"} ]

\* resetIdle at Date.now() = at; a timer is named by its deadline
resetIdle(i, b, at) ==
    [ idle |-> [i EXCEPT !.idle = FALSE,
                         !.pending = (i.pending \ {i.idleTimer}) \cup {at + IdleWait},
                         !.idleTimer = at + IdleWait],
      body |-> b \ {"idle"} ]

\* initIdleDetection: five throttles with last = 0, then resetIdle()
initIdleDetection(b, at) ==
    resetIdle([ idle        |-> FALSE,
                idleTimer   |-> -1,
                pending     |-> {},
                last        |-> [e \in IdleEvents |-> 0],
                lastEvent   |-> -1,      \* when the latest event occurred
                lastHandled |-> -1,      \* when an event last got past its throttle
                events      |-> 0,
                ticks       |-> 0 ], b, at)

\* an event of type e reaches throttle(resetIdle, 1000)
idleEvent(i, b, e, at) ==
    LET seen == [i EXCEPT !.lastEvent = at, !.events = i.events + 1]
    IN  IF at - i.last[e] >= IdleThrottleWait
        THEN resetIdle([seen EXCEPT !.last[e] = at, !.lastHandled = at], b, at)
        ELSE [idle |-> seen, body |-> b]

\* the 30 s timer's callback
idleTimerFires(i, b, t) ==
    [ idle |-> [i EXCEPT !.idle = TRUE, !.pending = i.pending \ {t}],
      body |-> b \cup {"idle"} ]

InitIdle ==
    /\ ui = UIInit(FALSE, FALSE)
    /\ scene = SceneInit
    /\ timers = {}
    /\ ScrollIdle
    /\ cam = CamInit
    /\ PerfIdle /\ MobileIdle /\ WipesIdle /\ TwinIdle
    /\ LoadingIdle /\ ListenersIdle /\ StarsIdle /\ KeyedIdle
    /\ LET r == initIdleDetection({}, StartTime + now)
       IN  idle = r.idle /\ body = r.body

IdleEvent(e) ==
    /\ idle.events < MaxIdleEvents
    /\ LET r == idleEvent(idle, body, e, StartTime + now)
       IN  idle' = r.idle /\ body' = r.body
    /\ UNCHANGED <<now, NotIdleVars>>

IdleTimerFires(t) ==
    /\ t \in idle.pending
    /\ StartTime + now >= t
    /\ LET r == idleTimerFires(idle, body, t)
       IN  idle' = r.idle /\ body' = r.body
    /\ UNCHANGED <<now, NotIdleVars>>

IdleTick(d) ==
    /\ idle.ticks < MaxIdleTicks
    /\ now' = now + d
    /\ idle' = [idle EXCEPT !.ticks = @ + 1]
    /\ UNCHANGED <<body, NotIdleVars>>

NextIdle ==
    \/ \E e \in IdleEvents : IdleEvent(e)
    \/ \E t \in idle.pending : IdleTimerFires(t)
    \/ \E d \in IdleTickSteps : IdleTick(d)

SpecIdle == InitIdle /\ [][NextIdle]_vars

-----------------------------------------------------------------------------
(* The shooting-star specification: CabinScene._updateShootingStars        *)
(* (src/unnamed/part_002:1917).  Times are in tenths of a second; the      *)
(* values of Math.random() are inputs of the frame.                        *)

MaxStarsLow == 2
MaxStarsOther == 5

\* clock.getDelta(): a frame, a slow frame, a tab that was in the background
StarDeltas == {1, 4, 30}
\* 0.8 + Math.random() * 1.5
StarIntervals == {8, 22}
\* 0.8 + Math.random() * 0.6
StarMaxLifes == {8, 13}
Tiers == {"low", "mid", "high"}

NotStars == <<uiVars, scrollVars, cam, perf, mh, wipes, twin, loading, listeners, idle, keyed>>

createShootingStars(tier, interval) ==
    [ performanceTier      |-> tier,
      shootingStars        |-> <<>>,
      shootingStarTimer    |-> 0,
      shootingStarInterval |-> interval,
      maxShootingStars     |-> IF tier = "low" THEN MaxStarsLow ELSE MaxStarsOther,
      inScene              |-> {},      \* the trail meshes added to the scene
      limited              |-> FALSE ]  \* the last frame had a star due and no room for it

\* _spawnShootingStar: a new mesh in the scene, a new entry at the end
spawnShootingStar(st, maxLife) ==
    LET mesh == CHOOSE m \in 1..(Cardinality(st.inScene) + 1) : m \notin st.inScene
    IN  [st EXCEPT !.inScene = st.inScene \cup {mesh},
                   !.shootingStars = Append(st.shootingStars,
                                            [mesh |-> mesh, life |-> 0, maxLife |-> maxLife])]

\* a star that goes only when its life has passed maxLife
expiredStrictly(s) == s.life > s.maxLife

\* s.life >= s.maxLife
expired(s) == s.life >= s.maxLife

\* the loop from the last index i down to the first: age, then splice if expired
RECURSIVE ageStars(_, _, _)
ageStars(st, i, delta) ==
    IF i < 1 THEN st
    ELSE LET s == [st.shootingStars[i] EXCEPT !.life = @ + delta]
             n == Len(st.shootingStars)
         IN  IF expired(s)
             THEN ageStars([st EXCEPT !.inScene = st.inScene \ {s.mesh},
                                      !.shootingStars =
                                          SubSeq(st.shootingStars, 1, i - 1)
                                          \o SubSeq(st.shootingStars, i + 1, n)],
                           i - 1, delta)
             ELSE ageStars([st EXCEPT !.shootingStars[i] = s], i - 1, delta)

updateShootingStars(st, delta, interval, maxLife) ==
    LET timer == st.shootingStarTimer + delta
        spawn == /\ timer >= st.shootingStarInterval
                 /\ Len(st.shootingStars) < st.maxShootingStars
        st1   == IF spawn
                 THEN [spawnShootingStar(st, maxLife) EXCEPT
                          !.shootingStarTimer = 0,
                          !.shootingStarInterval = interval,
                          !.limited = FALSE]
                 ELSE [st EXCEPT !.shootingStarTimer = timer,
                                 !.limited = (timer >= st.shootingStarInterval)]
    IN  ageStars(st1, Len(st1.shootingStars), delta)

InitStars ==
    /\ ui = UIInit(TRUE, TRUE)
    /\ scene = SceneInit
    /\ body = {}
    /\ timers = {}
    /\ ScrollIdle
    /\ cam = CamInit
    /\ PerfIdle /\ MobileIdle /\ WipesIdle /\ TwinIdle
    /\ LoadingIdle /\ ListenersIdle /\ IdleIdle /\ KeyedIdle
    /\ \E tier \in Tiers, interval \in StarIntervals :
         stars = createShootingStars(tier, interval)

StarsFrame(delta, interval, maxLife) ==
    /\ stars' = updateShootingStars(stars, delta, interval, maxLife)
    /\ UNCHANGED NotStars

NextStars ==
    \E delta \in StarDeltas, interval \in StarIntervals, maxLife \in StarMaxLifes :
        StarsFrame(delta, interval, maxLife)

SpecStars == InitStars /\ [][NextStars]_vars

-----------------------------------------------------------------------------
(* Scroll progress                                                         *)

\* C1: the progress computed by UI.onScroll and the value CabinScene.onScroll
\* stores in scrollPercent always lie in [0, 1], whatever the scroll position
\* and document height (a document no taller than the viewport gives 0).
ScrollProgressInRange ==
    /\ ui.progress \in 0..Scale
    /\ scene.scrollPercent \in 0..Scale
    /\ docHeight <= 0 => ui.progress = 0

\* the page is scrolled past the end of a scrollable document and the handler ran
ScrollPastEndHandled ==
    /\ delivered > 0
    /\ docHeight > 0
    /\ scrollY > docHeight
    /\ last = StartTime + now
    /\ ui.progress = Scale
    /\ scene.scrollPercent = Scale

\* C7: once a scroll event has been delivered, the progress forwarded to the
\* scene, and the flags derived from it, are those of the page's scroll position.
SceneFollowsScrollPosition ==
    ui.cabinScene =>
        /\ scene.scrollPercent = ScrollProgress(scrollY, docHeight)
        /\ ui.isInsideCabin = (ScrollProgress(scrollY, docHeight) > 40)
        /\ ui.isLaptopZoom = (ScrollProgress(scrollY, docHeight) > 85)

-----------------------------------------------------------------------------
(* Camera keyframes                                                        *)

\* the first segment i with kf[i].t <= t <= kf[i+1].t
Bracket(t) ==
    CHOOSE i \in 1..(NumKeyframes - 1) :
        /\ cameraKeyframes[i].t <= t /\ t <= cameraKeyframes[i + 1].t
        /\ \A j \in 1..(i - 1) :
              ~(cameraKeyframes[j].t <= t /\ t <= cameraKeyframes[j + 1].t)

Updated == cam.t >= 0

\* C2 as stated: the target position is the linear interpolation between the
\* bracketing keyframes, k0.pos + (k1.pos - k0.pos) * (t - k0.t) / (k1.t - k0.t).
CameraTargetIsLinear ==
    Updated =>
        LET i  == Bracket(cam.t)
            k0 == cameraKeyframes[i]
            k1 == cameraKeyframes[i + 1]
            d  == k1.t - k0.t
            n  == cam.t - k0.t
        IN  /\ cam.targetPos.den = d * d * d
            /\ \A c \in 1..3 :
                 cam.targetPos.num[c] = (k0.pos[c] * d + (k1.pos[c] - k0.pos[c]) * n) * d * d

\* C2 amended: the target position is the smooth-step eased interpolation
\* k0.pos + (k1.pos - k0.pos) * s, s = u * u * (3 - 2 * u), u = (t - k0.t) / (k1.t - k0.t),
\* between the bracketing keyframes; it lies between them in every coordinate.
CameraTargetIsEased ==
    Updated =>
        LET i  == Bracket(cam.t)
            k0 == cameraKeyframes[i]
            k1 == cameraKeyframes[i + 1]
            d  == k1.t - k0.t
            n  == cam.t - k0.t
        IN  /\ cam.targetPos.den = d * d * d
            /\ \A c \in 1..3 :
                 /\ cam.targetPos.num[c] =
                      k0.pos[c] * d * d * d + (k1.pos[c] - k0.pos[c]) * n * n * (3 * d - 2 * n)
                 /\ cam.targetPos.num[c] >= Min(k0.pos[c], k1.pos[c]) * d * d * d
                 /\ cam.targetPos.num[c] <= Max(k0.pos[c], k1.pos[c]) * d * d * d

\* a frame was computed a third of the way into the first segment
EasedInsideSegment ==
    /\ cam.t = 5
    /\ cam.k0 = 1
    /\ cam.targetPos.num[3] * 27 = 2500 * 27 * cam.targetPos.den - 900 * 7 * cam.targetPos.den

\* C3: _updateCamera selects two adjacent keyframes with k0.t <= t <= k1.t (the
\* table's times increase strictly from 0 to 1), so the target is the first
\* keyframe at t = 0, the last at t = 1, and keyframe i exactly at t = kf[i].t,
\* the two segments that meet at a keyframe agreeing there.
CameraBracketsProgress ==
    /\ cameraKeyframes[1].t = 0
    /\ cameraKeyframes[NumKeyframes].t = Scale
    /\ \A i \in 1..(NumKeyframes - 1) : cameraKeyframes[i].t < cameraKeyframes[i + 1].t
    /\ Updated =>
        /\ cam.k0 \in 1..(NumKeyframes - 1)
        /\ cam.k1 = cam.k0 + 1
        /\ cameraKeyframes[cam.k0].t <= cam.t
        /\ cam.t <= cameraKeyframes[cam.k1].t
        /\ \A i \in 1..NumKeyframes :
             cam.t = cameraKeyframes[i].t =>
                \A c \in 1..3 :
                   /\ cam.targetPos.num[c] = cameraKeyframes[i].pos[c] * cam.targetPos.den
                   /\ cam.targetLook.num[c] = cameraKeyframes[i].look[c] * cam.targetLook.den

\* a frame was computed exactly at an inner keyframe, reached from the segment before it
CameraAtInnerKeyframe ==
    /\ cam.t = 45
    /\ cam.k0 = 3
    /\ cam.cameraCurrentPos.num[3] = 250 * cam.cameraCurrentPos.den

-----------------------------------------------------------------------------
(* Performance tier                                                        *)

TierRank(tier) == IF tier = "low" THEN 1 ELSE IF tier = "mid" THEN 2 ELSE 3

TierOfScore(score) == IF score <= 4 THEN "low" ELSE IF score <= 7 THEN "mid" ELSE "high"

\* C4: the tier is the monotone classification of the score (<= 4 low, 5..7 mid,
\* >= 8 high), and on devices with the same pixel ratio a higher tier never has
\* fewer particles, never loses shadows and never has a lower pixel ratio, in
\* the detected settings and in the renderer built from them.
TierScalesSettings ==
    /\ \A k \in 1..2 :
         perf.cached[k] # NoSettings =>
            perf.cached[k].tier = TierOfScore(PerfScore(perf.dev[k]))
    /\ \A j \in 1..2, k \in 1..2 :
         /\ perf.cached[j] # NoSettings
         /\ perf.cached[k] # NoSettings
         /\ TierRank(perf.cached[j].tier) <= TierRank(perf.cached[k].tier)
         => /\ perf.cached[j].particles <= perf.cached[k].particles
            /\ perf.cached[j].shadows => perf.cached[k].shadows
            /\ perf.cached[j].pixelRatio <= perf.cached[k].pixelRatio
    /\ \A j \in 1..2, k \in 1..2 :
         /\ perf.renderer[j] # NoRenderer
         /\ perf.renderer[k] # NoRenderer
         /\ TierRank(perf.renderer[j].tier) <= TierRank(perf.renderer[k].tier)
         => /\ perf.renderer[j].shadows => perf.renderer[k].shadows
            /\ perf.renderer[j].pixelRatio <= perf.renderer[k].pixelRatio

\* the parts of C4 that do hold: classification, particles and shadows
TierScalesAllButPixelRatio ==
    /\ \A k \in 1..2 :
         perf.cached[k] # NoSettings =>
            perf.cached[k].tier = TierOfScore(PerfScore(perf.dev[k]))
    /\ \A j \in 1..2, k \in 1..2 :
         /\ perf.cached[j] # NoSettings
         /\ perf.cached[k] # NoSettings
         /\ TierRank(perf.cached[j].tier) <= TierRank(perf.cached[k].tier)
         => /\ perf.cached[j].particles <= perf.cached[k].particles
            /\ perf.cached[j].shadows => perf.cached[k].shadows
            /\ perf.dpr >= 150 => perf.cached[j].pixelRatio <= perf.cached[k].pixelRatio
    /\ \A j \in 1..2, k \in 1..2 :
         /\ perf.renderer[j] # NoRenderer
         /\ perf.renderer[k] # NoRenderer
         /\ TierRank(perf.renderer[j].tier) <= TierRank(perf.renderer[k].tier)
         => /\ perf.renderer[j].shadows => perf.renderer[k].shadows
            /\ perf.dpr >= 150 => perf.renderer[j].pixelRatio <= perf.renderer[k].pixelRatio

-----------------------------------------------------------------------------
(* Brain toggle                                                            *)

\* C6: with a scene present, UI.brainActive, the body class 'brain-active' and
\* CabinScene.brainVisible are all equal after any sequence of button clicks,
\* terminal 'brain' commands and Konami completions.
BrainStatePushed ==
    ui.cabinScene =>
        /\ ui.brainActive = ("brain-active" \in body)
        /\ ui.brainActive = scene.brainVisible

\* the Konami code has just switched the brain on in a page with a scene
BrainOnByKonami ==
    /\ ui.cabinScene
    /\ ui.brainActive
    /\ ui.konamiIndex = 0
    /\ scene.brainGroup
    /\ scene.brainVisible
    /\ "brain-active" \in body
    /\ ui.typedText = <<"n">>
    /\ ui.typingIndex = 0

-----------------------------------------------------------------------------
(* One-way data flow                                                       *)

\* C5 as stated: two runs fed the same events, whose scenes differ inside,
\* make the same UIController state changes and the same calls into the
\* renderers.
RunsAgree ==
    /\ ui = twin.ui
    /\ body = twin.body
    /\ twin.log1 = twin.log2

\* the calls and effects that were not decided on a raycast result
NotOnHit(log) == SelectSeq(log, LAMBDA c : c[3] # "hit")

\* C5 amended: the two runs agree on every UIController field except the hover
\* hint, on the body classes, on the scene state the UIController pushes
\* (scrollPercent, brainVisible, _screenEditing) and on every call that is not
\* decided on the result of getInteractiveAt.
RunsAgreeExceptOnHit ==
    /\ [ui EXCEPT !.hoverHint = ""] = [twin.ui EXCEPT !.hoverHint = ""]
    /\ body = twin.body
    /\ timers = twin.timers
    /\ [scene EXCEPT !.hover = "none"] = [twin.scene EXCEPT !.hover = "none"]
    /\ NotOnHit(twin.log1) = NotOnHit(twin.log2)

\* after a scroll into the cabin, a click opened the link in one run only
RunsDivergedOnClick ==
    /\ ui.isInsideCabin
    /\ twin.ui.isInsideCabin
    /\ scene.hover = "tv"
    /\ twin.scene.hover = "none"
    /\ Len(twin.log1) = Len(twin.log2) + 1
    /\ twin.log1[Len(twin.log1)] = <<"window.open", 0, "hit">>

-----------------------------------------------------------------------------
(* Parallax and swipes                                                     *)

\* C8: getParallaxValues() returns x and y within [-1, 1] after any sequence
\* of touchmove events, deviceorientation events and animation frames.
ParallaxInRange ==
    /\ getParallaxValues(mh).x \in (-PScale)..PScale
    /\ getParallaxValues(mh).y \in (-PScale)..PScale

\* C9: on touchend onSwipe(direction) is invoked exactly when the gesture took
\* less than 300 ms, |dx| > 50, |dx| > |dy| (from the recorded touch start) and
\* it was not consumed as a menu open or close gesture; the direction is
\* 'right' iff dx > 0, 'left' otherwise.
SwipeExactlyWhenQuickAndWide ==
    (mh.ended.seen /\ mh.onSwipe) =>
        LET e == mh.ended
            wide == e.dt < 300 /\ Abs(e.dx) > 50 /\ Abs(e.dx) > Abs(e.dy)
            consumed == wide /\ e.dx > 0 /\ (e.edge \/ e.menu)
        IN  /\ (e.called # "none") <=> (wide /\ ~consumed)
            /\ e.called # "none" => (e.called = "right" <=> e.dx > 0)
            /\ e.called # "none" => (e.called = "left" <=> e.dx <= 0)

\* a quick leftward swipe, started outside the edge zone, reached onSwipe
SwipedLeft ==
    /\ mh.onSwipe
    /\ mh.ended.seen
    /\ mh.ended.dx = -51
    /\ mh.ended.dt = 150
    /\ mh.ended.called = "left"
    /\ mh.swipes = 1

-----------------------------------------------------------------------------
(* Wipe transition                                                         *)

IsPrefix(a, b) == Len(a) <= Len(b) /\ a = SubSeq(b, 1, Len(a))

Range(seq) == { seq[k] : k \in 1..Len(seq) }

Groups(w) == 0..((IF w.dir = "left" THEN 20 ELSE 12) - 1)

\* C10: the callback is invoked once, when every group is active (20 columns
\* for 'left', 12 rows for 'down'), and not before; the groups are then
\* deactivated in the order in which they were activated; the overlay leaves
\* the document after the last group is deactivated.
WipeCallbackAtFullCover ==
    \A i \in 1..Len(wipes) :
        LET w == wipes[i]
            filling == w.pending[1] = "fill"
        IN  /\ w.called <= 1
            /\ filling => w.called = 0 /\ w.deactivated = <<>>
            /\ (~filling /\ w.callback) => w.called = 1
            /\ w.called = 1 => w.activeAtCall = Groups(w)
            /\ ~filling => Len(w.activated) = Cardinality(Groups(w))
            /\ IsPrefix(w.deactivated, w.activated)
            /\ w.active = Range(w.activated) \ Range(w.deactivated)
            /\ ~w.inDocument => w.deactivated = w.activated /\ w.active = {}
            /\ w.pending[1] = "none" => ~w.inDocument

\* a 'left' wipe with a callback ran to its end
WipeFinished ==
    \E i \in 1..Len(wipes) :
        /\ wipes[i].dir = "left"
        /\ wipes[i].callback
        /\ wipes[i].called = 1
        /\ Len(wipes[i].deactivated) = 20
        /\ ~wipes[i].inDocument

-----------------------------------------------------------------------------
(* Loading animation (C11): the callback is invoked exactly once, and    *)
(* only when the whole art has been appended chunk by chunk, the         *)
(* displayed percentage, which never decreases, is 100, the loading      *)
(* screen has been removed and _loadingDone is true.                     *)

LoadingComplete ==
    /\ loading.art = substring(0, TotalChars)
    /\ loading.pct = 100
    /\ ~loading.attached
    /\ loading.loadingDone

LoadingCallbackOnceAtEnd ==
    /\ [](loading.calls <= 1 /\ (loading.calls = 1 => LoadingComplete))
    /\ [][loading'.pct >= loading.pct]_vars
    /\ ((loading.started /\ loading.cbIsFunction) ~> (loading.calls = 1))

LoadingCalledBack == loading.calls = 1 /\ LoadingComplete

-----------------------------------------------------------------------------
(* destroy() (C12): after destroy() has returned, no touch,              *)
(* deviceorientation, resize, orientationchange or reduced-motion change *)
(* event invokes a handler the MobileHandler registered, and its         *)
(* parallax loop no longer runs, whatever init() and                     *)
(* requestOrientationPermission() calls came before.                     *)

DestroyStopsEveryHandler == listeners.afterDestroy = {}

-----------------------------------------------------------------------------
(* Menu delegation (C13): after init(), no sequence of touch gestures    *)
(* makes the MobileHandler open its menu (_menuOpen stays false) or      *)
(* write the body's position, top and overflow styles to lock or unlock  *)
(* scrolling.                                                            *)

MenuLeftToUIController == ~mh.menuOpen /\ ~mh.bodyLocked

-----------------------------------------------------------------------------
(* Konami code (C14): a keydown calls triggerBrain exactly when the ten  *)
(* most recent keydown keys are the Konami sequence, whatever keys came  *)
(* before it, and konamiIndex stays in 0..9.                             *)

KonamiFiresOnLastTenKeys ==
    /\ keyed.fired <=> (Len(konamiSequence) \in keyed.suffixes)
    /\ ui.konamiIndex \in 0..(Len(konamiSequence) - 1)

\* the part that holds: it fires only when the last ten keys are the sequence
KonamiFiresOnlyOnSequence ==
    /\ keyed.fired => (Len(konamiSequence) \in keyed.suffixes)
    /\ ui.konamiIndex \in 0..(Len(konamiSequence) - 1)

-----------------------------------------------------------------------------
(* Typing reset (C15): whenever brain mode changes, by the button, the   *)
(* Konami code or the terminal's 'brain' command, the typing effect      *)
(* starts afresh with the newly active phrase list: the pending timer is *)
(* cancelled, typingIndex is 0, typingDeleting is false and the text     *)
(* restarts at the first character of the list's first phrase.           *)

TypingRestarted(u, T, heldBefore) ==
    /\ u.typingIndex = 0
    /\ ~u.typingDeleting
    /\ \A t \in T : t.id # heldBefore
    /\ IF u.typedEl
       THEN /\ u.typingCharIndex = 1
            /\ u.typedText = Slice(getCurrentPhrases(u)[1], 1)
       ELSE u.typingCharIndex = 0

TypingResetOnBrainChange ==
    [][ui'.brainActive # ui.brainActive
         => TypingRestarted(ui', timers', ui.typingTimeout)]_vars

\* the same for the button and the Konami code alone
TypingResetByButtonAndKonami ==
    [][(ui'.brainActive # ui.brainActive
        /\ ~(\E cmd \in Commands : TerminalCommand(cmd)))
         => TypingRestarted(ui', timers', ui.typingTimeout)]_vars

-----------------------------------------------------------------------------
(* Typing state (C16): always 0 <= typingCharIndex <= the length of the  *)
(* phrase typingIndex selects in the active list, and #typed-text shows  *)
(* the prefix of that phrase of length typingCharIndex, across typing    *)
(* timer ticks and brain-mode changes from button, Konami code and       *)
(* terminal.                                                             *)

CurrentWord ==
    LET phrases == getCurrentPhrases(ui)
    IN  phrases[(ui.typingIndex % Len(phrases)) + 1]

TypedTextIsPrefix ==
    /\ 0 <= ui.typingCharIndex
    /\ ui.typingCharIndex <= Len(CurrentWord)
    /\ ui.typedText = SubSeq(CurrentWord, 1, ui.typingCharIndex)

-----------------------------------------------------------------------------
(* Typing timers (C17): at most one typeNext timer is pending at any     *)
(* time, for any interleaving of timer firings, brain-toggle clicks and  *)
(* Konami completions.                                                   *)

AtMostOneTypingTimer == Cardinality(timers) <= 1

TimerReplacedByReset ==
    /\ Cardinality(timers) = 1
    /\ ui.brainActive
    /\ ui.typingCharIndex = 1
    /\ ui.konamiIndex = 0
    /\ keyed.fired

-----------------------------------------------------------------------------
(* Idle detection (C18): the page is marked idle (UI.idle, body class    *)
(* 'idle') only when no mousemove, keydown, scroll, touchstart or click  *)
(* event occurred during the preceding 30 seconds.                       *)

SinceLastEvent == (StartTime + now) - idle.lastEvent
SinceLastHandled == (StartTime + now) - idle.lastHandled

-----------------------------------------------------------------------------
(* Door and fog (C19): the door's x position is _doorClosedX for         *)
(* t <= 0.15, _doorOpenX for t >= 0.35 and never decreases as t grows;   *)
(* the fog density stays within [0.010, 0.016], is 0.016 for t <= 0.3,   *)
(* 0.010 for t >= 0.5 and never increases as t grows.                    *)

DoorAndFogMonotone ==
    Updated =>
        /\ cam.t <= 15 => cam.doorX.num = DoorClosedX * cam.doorX.den
        /\ cam.t >= 35 => cam.doorX.num = DoorOpenX * cam.doorX.den
        /\ cam.fog.num >= (FogOutdoor - FogIndoorDrop) * cam.fog.den
        /\ cam.fog.num <= FogOutdoor * cam.fog.den
        /\ cam.t <= 30 => cam.fog.num = FogOutdoor * cam.fog.den
        /\ cam.t >= 50 => cam.fog.num = (FogOutdoor - FogIndoorDrop) * cam.fog.den
        /\ \A u \in 0..Scale :
             u <= cam.t =>
                \* both sides are fractions over the same denominator
                /\ doorPosition(u).den = cam.doorX.den
                /\ doorPosition(u).num <= cam.doorX.num
                /\ fogDensity(u).den = cam.fog.den
                /\ fogDensity(u).num >= cam.fog.num

DoorHalfOpenInThinningFog ==
    /\ cam.t = 32
    /\ cam.doorX.num > DoorClosedX * cam.doorX.den
    /\ cam.doorX.num < DoorOpenX * cam.doorX.den
    /\ cam.fog.num < FogOutdoor * cam.fog.den
    /\ cam.fog.num > (FogOutdoor - FogIndoorDrop) * cam.fog.den

-----------------------------------------------------------------------------
(* Shooting stars (C20): in every frame the number of active shooting    *)
(* stars is at most _maxShootingStars (2 on the low tier, 5 otherwise),  *)
(* and a star is removed from the scene and from shootingStars in the    *)
(* first frame in which its accumulated life reaches its maxLife.        *)

StarsBoundedAndRemoved ==
    /\ stars.maxShootingStars = (IF stars.performanceTier = "low" THEN 2 ELSE 5)
    /\ Len(stars.shootingStars) <= stars.maxShootingStars
    \* no star outlives the frame in which its life reached maxLife
    /\ \A i \in 1..Len(stars.shootingStars) :
         stars.shootingStars[i].life < stars.shootingStars[i].maxLife
    \* the scene holds the meshes of the listed stars and no others
    /\ stars.inScene = { stars.shootingStars[i].mesh : i \in 1..Len(stars.shootingStars) }
    /\ Cardinality(stars.inScene) = Len(stars.shootingStars)

StarHeldBackAtTheLimit ==
    /\ stars.performanceTier = "low"
    /\ stars.limited
    /\ stars.shootingStars = <<>>

=============================================================================
